---- MODULE Spec2Model ----
(***************************************************************************)
(* Model of server/index.js: an Express server keeping user records in an  *)
(* in-memory array, with JWT bearer authentication (jsonwebtoken) and zod  *)
(* request validation.                                                     *)
(*                                                                         *)
(* Strings on which the code does character work (trim, toLowerCase, the   *)
(* e-mail format check) are sequences of one-character strings; role and   *)
(* password, of which the code only reads length, truthiness and identity, *)
(* are TLA+ strings.  Ids produced by uuidv4() are fresh naturals.  The    *)
(* clock is Date.now() in milliseconds.                                    *)
(***************************************************************************)
EXTENDS Integers, Sequences, FiniteSets, TLC

VARIABLES
    users,      \* database.users: the array of user records
    nextId,     \* the next value uuidv4() returns
    now,        \* Date.now(), in milliseconds
    held,       \* the token the caller keeps from its last successful login
    issuedAt,   \* history: Date.now() of the login that issued the held token
    loggedOut,  \* history: a logout presenting the held token has succeeded
    writes,     \* history: number of successful create/update/remove requests
    req,        \* the request being answered
    resp,       \* the response to it
    cToken,     \* App state `token`; NoToken is the empty string
    cMe,        \* App state `me`; the empty sequence is null
    cUsers,     \* App state `users`
    cLoading,   \* App state `loading`
    cError,     \* App state `error`
    localStorage, \* the 'auth' item of localStorage
    flights,    \* the fetch() calls of api() whose answer is awaited
    calls,      \* history: number of fetch() calls made
    last         \* history: the fetch() call whose answer was handled last

cvars == <<cToken, cMe, cUsers, cLoading, cError, localStorage, flights,
           calls, last>>

vars == <<users, nextId, now, held, issuedAt, loggedOut, writes, req, resp,
          cToken, cMe, cUsers, cLoading, cError, localStorage, flights,
          calls, last>>

-----------------------------------------------------------------------------
(* Bounds of the model *)

\* at most this many successful create/update/remove requests in a run
MaxWrites == 1

\* fetch() calls the user starts in the client
MaxCalls == 4

\* Date.now() when the process starts
StartTime == 600500

-----------------------------------------------------------------------------
(* Characters and strings *)

UpperChars == <<"A","B","C","D","E","F","G","H","I","J","K","L","M",
                "N","O","P","Q","R","S","T","U","V","W","X","Y","Z">>
LowerChars == <<"a","b","c","d","e","f","g","h","i","j","k","l","m",
                "n","o","p","q","r","s","t","u","v","w","x","y","z">>
DigitChars == <<"0","1","2","3","4","5","6","7","8","9">>

Range(s) == {s[i] : i \in 1..Len(s)}

\* the lower-case letter of each upper-case letter
LowerOf == [c \in Range(UpperChars) |->
              LowerChars[CHOOSE k \in 1..26 : UpperChars[k] = c]]

LowerChar(c) == IF c \in DOMAIN LowerOf THEN LowerOf[c] ELSE c

\* String.prototype.toLowerCase
toLowerCase(s) == [i \in 1..Len(s) |-> LowerChar(s[i])]

IsSpace(c) == c = " "

RECURSIVE trimStart(_)
trimStart(s) ==
    IF s # <<>> /\ IsSpace(Head(s)) THEN trimStart(Tail(s)) ELSE s

RECURSIVE trimEnd(_)
trimEnd(s) ==
    IF s # <<>> /\ IsSpace(s[Len(s)]) THEN trimEnd(SubSeq(s, 1, Len(s) - 1)) ELSE s

\* String.prototype.trim
trim(s) == trimEnd(trimStart(s))

IsLetter(c) == c \in Range(UpperChars) \cup Range(LowerChars)
IsAlnum(c) == IsLetter(c) \/ c \in Range(DigitChars)

\* z.string().email(): local@label(.label)*.tld, letters, digits and a few
\* punctuation marks in the local part, no dot first or doubled, a top-level
\* domain of at least two letters
IsEmail(s) ==
    /\ Cardinality({i \in 1..Len(s) : s[i] = "@"}) = 1
    /\ LET at == CHOOSE i \in 1..Len(s) : s[i] = "@"
           lastDot == IF \E i \in at+1..Len(s) : s[i] = "."
                      THEN CHOOSE i \in at+1..Len(s) :
                              s[i] = "." /\ \A j \in i+1..Len(s) : s[j] # "."
                      ELSE 0
       IN  /\ at > 1
           /\ \A i \in 1..at-1 : IsAlnum(s[i]) \/ s[i] \in {"_", "'", "+", "-", "."}
           /\ s[1] # "."
           /\ s[at-1] # "."
           /\ \A i \in 1..Len(s)-1 : ~(s[i] = "." /\ s[i+1] = ".")
           /\ lastDot > at + 1
           /\ IsAlnum(s[at+1])
           /\ \A i \in at+1..lastDot-1 : IsAlnum(s[i]) \/ s[i] \in {"-", "."}
           /\ Len(s) - lastDot >= 2
           /\ \A i \in lastDot+1..Len(s) : IsLetter(s[i])

-----------------------------------------------------------------------------
(* The store and its seed *)

ExampleDomain == <<"@","e","x","a","m","p","l","e",".","c","o","m">>
DemoEmail == <<"d","e","m","o">> \o ExampleDomain
UserEmail(i) == <<"u","s","e","r", DigitChars[i+1]>> \o ExampleDomain
UserName(i) == <<"U","s","e","r"," ", DigitChars[i+1]>>

\* const roles = ['user', 'manager', 'viewer'] of seedUsers, 0-indexed
SeedRoles(k) == IF k = 0 THEN "user" ELSE IF k = 1 THEN "manager" ELSE "viewer"

\* number of dummy users seedUsers adds after the demo user
SeedCount == 7

\* seedUsers() at time t; the uuids of the seed are 1..8
SeedUsers(t) ==
    <<[id |-> 1, name |-> <<"D","e","m","o"," ","A","d","m","i","n">>,
       email |-> DemoEmail, role |-> "admin", password |-> "password",
       createdAt |-> t - 1000 * 60 * 10]>>
    \o [i \in 1..SeedCount |->
         [id |-> i + 1, name |-> UserName(i), email |-> UserEmail(i),
          role |-> SeedRoles(i % 3), password |-> "password",
          createdAt |-> t - 1000 * 60 * (10 - i)]]

\* sanitizeUser returning the record as it is stored
sanitizeUserWhole(user) == user

\* function sanitizeUser(user): the record without its password
sanitizeUser(user) == [k \in DOMAIN user \ {"password"} |-> user[k]]

allowedRoles == {"user", "manager", "viewer", "admin"}

\* Array.prototype.find with an email predicate: the index of the first record
\* whose email equals e case-insensitively, 0 when there is none
FindByEmail(us, e) ==
    LET lower == toLowerCase(e)
        found == {i \in 1..Len(us) : toLowerCase(us[i].email) = lower}
    IN  IF found = {} THEN 0 ELSE CHOOSE i \in found : \A j \in found : i <= j

\* Array.prototype.find / findIndex on the id: the first index, 0 when none
FindById(us, id) ==
    LET found == {i \in 1..Len(us) : us[i].id = id}
    IN  IF found = {} THEN 0 ELSE CHOOSE i \in found : \A j \in found : i <= j

\* splice one position too far
RemoveAtNext(us, i) == SubSeq(us, 1, i) \o SubSeq(us, i + 2, Len(us))

\* Array.prototype.splice(index, 1)
RemoveAt(us, i) == SubSeq(us, 1, i - 1) \o SubSeq(us, i + 1, Len(us))

\* [...database.users].sort((a, b) => b.createdAt - a.createdAt): a stable
\* sort, so records with equal createdAt keep their store order
RECURSIVE InsertDesc(_, _)
InsertDesc(sorted, u) ==
    IF sorted = <<>> THEN <<u>>
    ELSE IF Head(sorted).createdAt >= u.createdAt
         THEN <<Head(sorted)>> \o InsertDesc(Tail(sorted), u)
         ELSE <<u>> \o sorted

RECURSIVE SortDesc(_)
SortDesc(us) ==
    IF us = <<>> THEN <<>>
    ELSE InsertDesc(SortDesc(SubSeq(us, 1, Len(us) - 1)), us[Len(us)])

-----------------------------------------------------------------------------
(* Request bodies and the zod schemas *)

\* A JSON body: `has` is the set of keys present, the other fields their values
Body(has, name, email, role, password) ==
    [has |-> has, name |-> name, email |-> email, role |-> role,
     password |-> password]

NoBody == Body({}, <<>>, <<>>, "", "")

\* z.string().trim() of the name fields
nameField(s) == trim(s)

\* the email fields without toLowerCase()
emailFieldNotLowered(s) == trim(s)

\* z.string().trim().toLowerCase() of the email fields
emailField(s) == toLowerCase(trim(s))

\* loginSchema.safeParse: email must be an email as sent, password non-empty
loginSchema(body) ==
    LET bad == {k \in {"email"} : k \notin body.has \/ ~IsEmail(body.email)}
               \cup {k \in {"password"} :
                        k \notin body.has \/ Len(body.password) < 1}
    IN  [success |-> bad = {}, details |-> bad,
         data |-> Body({"email", "password"}, <<>>, body.email, "", body.password)]

\* createUserSchema.safeParse: name trimmed, email trimmed and lower-cased
\* before the checks, role defaulted to 'user', unknown keys stripped
createUserSchema(body) ==
    LET name == nameField(body.name)
        email == emailField(body.email)
        role == IF "role" \in body.has THEN body.role ELSE "user"
        bad == {k \in {"name"} : k \notin body.has \/ Len(name) < 2}
               \cup {k \in {"email"} : k \notin body.has \/ ~IsEmail(email)}
               \cup {k \in {"role"} : role \notin allowedRoles}
               \cup {k \in {"password"} :
                        k \notin body.has \/ Len(body.password) < 6}
    IN  [success |-> bad = {}, details |-> bad,
         data |-> Body({"name", "email", "role", "password"},
                       name, email, role, body.password)]

\* updateUserSchema taking an empty name, role or password as not supplied
updateUserSchemaSkippingEmpty(body) ==
    LET name == nameField(body.name)
        email == emailField(body.email)
        has == {k \in body.has \cap {"name", "email", "role", "password"} :
                  \/ k = "email"
                  \/ k = "name" /\ body.name # <<>>
                  \/ k = "role" /\ body.role # ""
                  \/ k = "password" /\ body.password # ""}
        bad == {k \in {"name"} : k \in has /\ Len(name) < 2}
               \cup {k \in {"email"} : k \in has /\ ~IsEmail(email)}
               \cup {k \in {"role"} : k \in has /\ body.role \notin allowedRoles}
               \cup {k \in {"password"} : k \in has /\ Len(body.password) < 6}
    IN  [success |-> bad = {}, details |-> bad,
         data |-> Body(has,
                       IF "name" \in has THEN name ELSE <<>>,
                       IF "email" \in has THEN email ELSE <<>>,
                       IF "role" \in has THEN body.role ELSE "",
                       IF "password" \in has THEN body.password ELSE "")]

\* updateUserSchema.safeParse: the same rules, every field optional
updateUserSchema(body) ==
    LET name == nameField(body.name)
        email == emailField(body.email)
        bad == {k \in {"name"} : k \in body.has /\ Len(name) < 2}
               \cup {k \in {"email"} : k \in body.has /\ ~IsEmail(email)}
               \cup {k \in {"role"} : k \in body.has /\ body.role \notin allowedRoles}
               \cup {k \in {"password"} :
                        k \in body.has /\ Len(body.password) < 6}
        has == body.has \cap {"name", "email", "role", "password"}
    IN  [success |-> bad = {}, details |-> bad,
         data |-> Body(has,
                       IF "name" \in has THEN name ELSE <<>>,
                       IF "email" \in has THEN email ELSE <<>>,
                       IF "role" \in has THEN body.role ELSE "",
                       IF "password" \in has THEN body.password ELSE "")]

-----------------------------------------------------------------------------
(* Tokens *)

JWT_SECRET == "i-am-secret-key"

\* expiresIn: '1h', in seconds
TokenTTL == 3600

\* jsonwebtoken counts time in seconds: Math.floor(Date.now() / 1000)
MsPerSecond == 1000

Token(kind, userId, iat, exp, key) ==
    [kind |-> kind, userId |-> userId, iat |-> iat, exp |-> exp, key |-> key]

\* no Authorization header, or one that is not 'Bearer <token>'
NoToken == Token("none", 0, 0, 0, "")

\* a bearer string that is no JWT
Malformed == Token("malformed", 0, 0, 0, "")

\* jwt.sign with expiresIn: '2h'
jwtSignTwoHours(userId, t) ==
    Token("jwt", userId, t \div MsPerSecond,
          (t \div MsPerSecond) + 2 * TokenTTL, JWT_SECRET)

\* jwt.sign({ userId }, JWT_SECRET, { expiresIn: '1h' }) at time t
jwtSign(userId, t) ==
    Token("jwt", userId, t \div MsPerSecond, (t \div MsPerSecond) + TokenTTL,
          JWT_SECRET)

\* jwt.verify(token, JWT_SECRET) at time t does not throw
jwtVerify(token, t) ==
    /\ token.kind = "jwt"
    /\ token.key = JWT_SECRET
    /\ ~((t \div MsPerSecond) >= token.exp)

\* requireAuth also refusing a token whose user is no longer in the store
requireAuthKnownUser(token, t) ==
    IF token.kind = "none" THEN "Unauthorized"
    ELSE IF ~jwtVerify(token, t) \/ \A i \in 1..Len(users) : users[i].id # token.userId
    THEN "Invalid or expired token"
    ELSE ""

\* function requireAuth: "" when next() is called, else the 401's error
requireAuth(token, t) ==
    IF token.kind = "none" THEN "Unauthorized"
    ELSE IF ~jwtVerify(token, t) THEN "Invalid or expired token"
    ELSE ""

-----------------------------------------------------------------------------
(* Route handlers: the answer and the store after it *)

\* res.status(status).json(...): out is the sequence of user records in the
\* answer, token the token in it, details the keys of the validation field map
Answer(status, error, details, out, token, us) ==
    [status |-> status, error |-> error, details |-> details, out |-> out,
     token |-> token, users |-> us]

\* the login handler without the password comparison
PostLoginAnyPassword(us, t, body) ==
    LET parse == loginSchema(body)
        i == FindByEmail(us, parse.data.email)
    IN  IF ~parse.success
        THEN Answer(400, "Validation failed", parse.details, <<>>, NoToken, us)
        ELSE IF i = 0
        THEN Answer(401, "Invalid email or password", {}, <<>>, NoToken, us)
        ELSE Answer(200, "", {}, <<sanitizeUser(us[i])>>, jwtSign(us[i].id, t), us)

\* app.post('/api/login')
PostLogin(us, t, body) ==
    LET parse == loginSchema(body)
        i == FindByEmail(us, parse.data.email)
    IN  IF ~parse.success
        THEN Answer(400, "Validation failed", parse.details, <<>>, NoToken, us)
        ELSE IF i = 0 \/ us[i].password # parse.data.password
        THEN Answer(401, "Invalid email or password", {}, <<>>, NoToken, us)
        ELSE Answer(200, "", {}, <<sanitizeUser(us[i])>>, jwtSign(us[i].id, t), us)

\* the handler of app.post('/api/logout')
PostLogout(us) == Answer(200, "", {}, <<>>, NoToken, us)

\* the list handler answering in store order
GetUsersStoreOrder(us) ==
    Answer(200, "", {}, [i \in 1..Len(us) |-> sanitizeUser(us[i])], NoToken, us)

\* the handler of app.get('/api/users')
GetUsers(us) ==
    LET sorted == SortDesc(us)
    IN  Answer(200, "", {}, [i \in 1..Len(sorted) |-> sanitizeUser(sorted[i])],
               NoToken, us)

\* the handler of app.get('/api/users/:id')
GetUser(us, id) ==
    LET i == FindById(us, id)
    IN  IF i = 0 THEN Answer(404, "User not found", {}, <<>>, NoToken, us)
        ELSE Answer(200, "", {}, <<sanitizeUser(us[i])>>, NoToken, us)

\* the create handler with the duplicate check left out
EmailExistsNever(us, email) == FALSE

\* const existing = database.users.find(...) of the create handler
EmailExists(us, email) == FindByEmail(us, email) # 0

\* the handler of app.post('/api/users'); uuid is what uuidv4() returns
PostUser(us, uuid, t, body) ==
    LET parse == createUserSchema(body)
        d == parse.data
        user == [id |-> uuid, name |-> d.name, email |-> d.email,
                 role |-> IF d.role # "" THEN d.role ELSE "user",
                 password |-> d.password, createdAt |-> t]
    IN  IF ~parse.success
        THEN Answer(400, "Validation failed", parse.details, <<>>, NoToken, us)
        ELSE IF EmailExists(us, d.email)
        THEN Answer(409, "Email already exists", {}, <<>>, NoToken, us)
        ELSE Answer(201, "", {}, <<sanitizeUser(user)>>, NoToken, Append(us, user))

\* the update handler's email branch taken whenever an email is supplied
EmailChangesIfSupplied(user, d) == d.email # <<>>

\* if (email && email.toLowerCase() !== user.email.toLowerCase())
EmailChanges(user, d) ==
    d.email # <<>> /\ toLowerCase(d.email) # toLowerCase(user.email)

\* the assignments made for every field, supplied or not
AssignFieldsUnconditionally(user, d) ==
    [user EXCEPT !.name = d.name, !.role = d.role, !.password = d.password]

\* if (name) user.name = name; if (role) ...; if (password) ...
AssignFields(user, d) ==
    [user EXCEPT !.name = IF d.name # <<>> THEN d.name ELSE @,
                 !.role = IF d.role # "" THEN d.role ELSE @,
                 !.password = IF d.password # "" THEN d.password ELSE @]

\* the update handler assigning the body's fields to the record before it
\* validates them and checks the email
PutUserAssignFirst(us, id, body) ==
    LET i == FindById(us, id)
        parse == updateUserSchema(body)
        d == parse.data
        raw == [us[i] EXCEPT
                  !.name = IF "name" \in body.has THEN body.name ELSE @,
                  !.role = IF "role" \in body.has THEN body.role ELSE @,
                  !.password = IF "password" \in body.has THEN body.password ELSE @]
        changesEmail == EmailChanges(us[i], d)
        user == AssignFields(
                    IF changesEmail THEN [raw EXCEPT !.email = d.email] ELSE raw, d)
    IN  IF i = 0 THEN Answer(404, "User not found", {}, <<>>, NoToken, us)
        ELSE IF ~parse.success
        THEN Answer(400, "Validation failed", parse.details, <<>>, NoToken,
                    [us EXCEPT ![i] = raw])
        ELSE IF changesEmail /\ FindByEmail(us, d.email) # 0
        THEN Answer(409, "Email already exists", {}, <<>>, NoToken,
                    [us EXCEPT ![i] = raw])
        ELSE Answer(200, "", {}, <<sanitizeUser(user)>>, NoToken,
                    [us EXCEPT ![i] = user])

\* the handler of app.put('/api/users/:id')
PutUser(us, id, body) ==
    LET i == FindById(us, id)
        parse == updateUserSchema(body)
        d == parse.data
        changesEmail == EmailChanges(us[i], d)
        user == AssignFields(
                    IF changesEmail THEN [us[i] EXCEPT !.email = d.email] ELSE us[i],
                    d)
    IN  IF i = 0 THEN Answer(404, "User not found", {}, <<>>, NoToken, us)
        ELSE IF ~parse.success
        THEN Answer(400, "Validation failed", parse.details, <<>>, NoToken, us)
        ELSE IF changesEmail /\ FindByEmail(us, d.email) # 0
        THEN Answer(409, "Email already exists", {}, <<>>, NoToken, us)
        ELSE Answer(200, "", {}, <<sanitizeUser(user)>>, NoToken,
                    [us EXCEPT ![i] = user])

\* the handler of app.delete('/api/users/:id')
DeleteUser(us, id) ==
    LET i == FindById(us, id)
    IN  IF i = 0 THEN Answer(404, "User not found", {}, <<>>, NoToken, us)
        ELSE Answer(200, "", {}, <<sanitizeUser(us[i])>>, NoToken, RemoveAt(us, i))

\* a route registered with the requireAuth middleware before its handler
Guarded(token, t, us, handled) ==
    IF requireAuth(token, t) # ""
    THEN Answer(401, requireAuth(token, t), {}, <<>>, NoToken, us)
    ELSE handled

LogoutRoute(us, token, t) == Guarded(token, t, us, PostLogout(us))
ListRoute(us, token, t) == Guarded(token, t, us, GetUsers(us))
GetRoute(us, token, t, id) == Guarded(token, t, us, GetUser(us, id))
CreateRoute(us, token, t, uuid, body) ==
    Guarded(token, t, us, PostUser(us, uuid, t, body))
UpdateRoute(us, token, t, id, body) == Guarded(token, t, us, PutUser(us, id, body))

\* the delete route registered without the requireAuth middleware
DeleteRouteOpen(us, token, t, id) == DeleteUser(us, id)

DeleteRoute(us, token, t, id) == Guarded(token, t, us, DeleteUser(us, id))

-----------------------------------------------------------------------------
(* The requests the callers send *)

AnnEmailUpper == <<"A","N","N","@","X",".","C","O","M">>
AnnEmail == <<"a","n","n","@","x",".","c","o","m">>
AnnEmailPadded == <<" ","A","n","n","@","x",".","c","o","m"," ">>
NewEmail == <<"N","e","w","@","x",".","c","o","m">>
NewEmailLower == <<"n","e","w","@","x",".","c","o","m">>
AnnName == <<"A","n","n"," ","L","e","e">>
ZedName == <<"Z","e","d">>
AllKeys == {"name", "email", "role", "password"}

CreateBodies ==
    { Body(AllKeys, AnnName, AnnEmailUpper, "viewer", "secret1"),
      Body({"name", "email", "password"}, <<" ","A","l"," ">>, AnnEmailPadded,
           "", "secret1"),
      Body(AllKeys, <<"B","o">>, <<"U","s","e","r","1">> \o ExampleDomain,
           "admin", "secret1"),
      Body(AllKeys, <<"A">>, <<"b","a","d">>, "root", "123"),
      Body(AllKeys, AnnName, AnnEmail, "", "secret1"),
      NoBody }

UpdateBodies ==
    { NoBody,
      Body({"password"}, <<>>, <<>>, "", ""),
      Body({"name"}, <<" ">> \o ZedName \o <<" ">>, <<>>, "", ""),
      Body({"email"}, <<>>, <<"D","E","M","O">> \o ExampleDomain, "", ""),
      Body({"email"}, <<>>, <<" ">> \o UserEmail(2), "", ""),
      Body({"name", "email"}, ZedName, UserEmail(1), "", ""),
      Body({"name", "role"}, ZedName, <<>>, "root", ""),
      Body({"id", "role", "password"}, <<>>, <<>>, "manager", "newpass1"),
      Body({"email"}, <<>>, NewEmail, "", ""),
      Body({"name", "role"}, <<>>, <<>>, "manager", ""),
      Body({"name", "role"}, ZedName, <<>>, "", "") }

LoginBodies ==
    { Body({"email", "password"}, <<>>, <<"D","e","m","o">> \o ExampleDomain,
           "", "password"),
      Body({"email", "password"}, <<>>, DemoEmail, "", "Password"),
      Body({"email", "password"}, <<>>, DemoEmail, "", "newpass1"),
      Body({"email", "password"}, <<>>, <<" ">> \o DemoEmail, "", "password"),
      Body({"email"}, <<>>, DemoEmail, "", ""),
      Body({"email", "password"}, <<>>, AnnEmail, "", "secret1"),
      Body({"email", "password"}, <<>>, NewEmailLower, "", "password") }

\* a token with a payload of the attacker's choice, signed with another key
Forged ==
    Token("jwt", 1, StartTime \div MsPerSecond,
          (StartTime \div MsPerSecond) + 100 * TokenTTL, "not-the-key")

\* the tokens a caller can present
Presentable == {NoToken, Malformed, Forged} \cup {held}

\* the ids requests name: the demo user, an id no record has, created users
TargetIds == {0, 1} \cup (SeedCount + 2 .. nextId - 1)

\* the first millisecond at which a token signed at time t is expired
Expiry(t) == ((t \div MsPerSecond) + TokenTTL) * MsPerSecond

\* the instants at which the clock is read: the start, the last millisecond
\* before and the first at which a token signed at the start is expired, and
\* 61 minutes after the start
Instants ==
    { StartTime,
      Expiry(StartTime) - 1,
      Expiry(StartTime),
      StartTime + 61 * 60 * 1000 }

Request(op, token, id, body) ==
    [op |-> op, token |-> token, id |-> id, body |-> body]

NoRequest == Request("none", NoToken, 0, NoBody)
NoResponse == [status |-> 0, error |-> "", details |-> {}, out |-> <<>>,
               token |-> NoToken]

Response(a) ==
    [status |-> a.status, error |-> a.error, details |-> a.details,
     out |-> a.out, token |-> a.token]

Idle == resp.status = 0

\* the 'auth' item of localStorage; NoAuth is the item removed
Auth(token, user) == [token |-> token, user |-> user]
NoAuth == Auth(NoToken, <<>>)

\* a fetch() call of api(): the function that awaits it, the token of the
\* render in which api() was called, the body, and the answer once sent
Flight(n, fn, token, body) ==
    [n |-> n, fn |-> fn, token |-> token, body |-> body, served |-> FALSE,
     resp |-> NoResponse]

NoFlight == Flight(0, "none", NoToken, NoBody)

\* the values submitted in the login form: its defaults, and a wrong password
LoginValues ==
    { Body({"email", "password"}, <<>>, DemoEmail, "", "password"),
      Body({"email", "password"}, <<>>, DemoEmail, "", "wrong" ) }

\* the values submitted in the user form
UserValues == { Body(AllKeys, AnnName, AnnEmail, "viewer", "secret1") }

-----------------------------------------------------------------------------
(* The state machine *)

Init ==
    /\ now = StartTime
    /\ users = SeedUsers(now)
    /\ nextId = SeedCount + 2
    /\ held = NoToken
    /\ issuedAt = 0
    /\ loggedOut = FALSE
    /\ writes = 0
    /\ req = NoRequest
    /\ resp = NoResponse
    /\ cToken = NoToken
    /\ cMe = <<>>
    /\ cUsers = <<>>
    /\ cLoading = FALSE
    /\ cError = ""
    /\ localStorage = NoAuth
    /\ flights = {}
    /\ calls = 0
    /\ last = NoFlight

\* POST /api/login; on success the caller keeps the token
Login(body) ==
    /\ Idle
    /\ LET a == PostLogin(users, now, body)
       IN  /\ resp' = Response(a)
           /\ held' = IF a.status = 200 THEN a.token ELSE held
           /\ issuedAt' = IF a.status = 200 THEN now ELSE issuedAt
           /\ loggedOut' = IF a.status = 200 THEN FALSE ELSE loggedOut
    /\ req' = Request("login", NoToken, 0, body)
    /\ UNCHANGED <<users, nextId, now, writes>>
    /\ UNCHANGED cvars

\* POST /api/logout
Logout(token) ==
    /\ Idle
    /\ LET a == LogoutRoute(users, token, now)
       IN  /\ resp' = Response(a)
           /\ users' = a.users
           /\ loggedOut' = (loggedOut \/ (a.status = 200 /\ token = held))
    /\ req' = Request("logout", token, 0, NoBody)
    /\ UNCHANGED <<nextId, now, held, issuedAt, writes>>
    /\ UNCHANGED cvars

\* GET /api/users
List(token) ==
    /\ Idle
    /\ LET a == ListRoute(users, token, now)
       IN  resp' = Response(a) /\ users' = a.users
    /\ req' = Request("list", token, 0, NoBody)
    /\ UNCHANGED <<nextId, now, held, issuedAt, loggedOut, writes>>
    /\ UNCHANGED cvars

\* GET /api/users/:id
Get(token, id) ==
    /\ Idle
    /\ LET a == GetRoute(users, token, now, id)
       IN  resp' = Response(a) /\ users' = a.users
    /\ req' = Request("get", token, id, NoBody)
    /\ UNCHANGED <<nextId, now, held, issuedAt, loggedOut, writes>>
    /\ UNCHANGED cvars

\* POST /api/users
Create(token, body) ==
    /\ Idle
    /\ LET a == CreateRoute(users, token, now, nextId, body)
       IN  /\ a.status = 201 => writes < MaxWrites
           /\ resp' = Response(a)
           /\ users' = a.users
           /\ nextId' = IF a.status = 201 THEN nextId + 1 ELSE nextId
           /\ writes' = IF a.status = 201 THEN writes + 1 ELSE writes
    /\ req' = Request("create", token, 0, body)
    /\ UNCHANGED <<now, held, issuedAt, loggedOut>>
    /\ UNCHANGED cvars

\* PUT /api/users/:id
Update(token, id, body) ==
    /\ Idle
    /\ LET a == UpdateRoute(users, token, now, id, body)
       IN  /\ a.status = 200 => writes < MaxWrites
           /\ resp' = Response(a)
           /\ users' = a.users
           /\ writes' = IF a.status = 200 THEN writes + 1 ELSE writes
    /\ req' = Request("update", token, id, body)
    /\ UNCHANGED <<nextId, now, held, issuedAt, loggedOut>>
    /\ UNCHANGED cvars

\* DELETE /api/users/:id
Remove(token, id) ==
    /\ Idle
    /\ LET a == DeleteRoute(users, token, now, id)
       IN  /\ a.status = 200 => writes < MaxWrites
           /\ resp' = Response(a)
           /\ users' = a.users
           /\ writes' = IF a.status = 200 THEN writes + 1 ELSE writes
    /\ req' = Request("remove", token, id, NoBody)
    /\ UNCHANGED <<nextId, now, held, issuedAt, loggedOut>>
    /\ UNCHANGED cvars

\* the caller reads the response; the server is ready for the next request
Deliver ==
    /\ ~Idle
    /\ req' = NoRequest
    /\ resp' = NoResponse
    /\ UNCHANGED <<users, nextId, now, held, issuedAt, loggedOut, writes>>
    /\ UNCHANGED cvars

\* time passes between two requests
Tick ==
    /\ Idle
    /\ \E t \in Instants : t > now /\ now' = t
    /\ UNCHANGED <<users, nextId, held, issuedAt, loggedOut, writes, req, resp>>
    /\ UNCHANGED cvars

Next ==
    \/ \E body \in LoginBodies : Login(body)
    \/ \E token \in Presentable : Logout(token)
    \/ \E token \in Presentable : List(token)
    \/ \E token \in Presentable, id \in TargetIds : Get(token, id)
    \/ \E token \in Presentable, body \in CreateBodies : Create(token, body)
    \/ \E token \in Presentable, id \in TargetIds, body \in UpdateBodies :
          Update(token, id, body)
    \/ \E token \in Presentable, id \in TargetIds : Remove(token, id)
    \/ Deliver
    \/ Tick

Spec == Init /\ [][Next]_vars

-----------------------------------------------------------------------------
(* The client: App.jsx over the same server *)

svars == <<held, issuedAt, loggedOut, writes, req, resp>>

\* isAuthenticated = Boolean(token)
isAuthenticated(token) == token # NoToken

\* api() signing the user out on any failed answer but 401
apiSignsOutOnOtherErrors(f) ==
    f.resp.status >= 400 /\ f.resp.status # 401 /\ f.token # NoToken

\* api(): `res.status === 401 && token`, with the token of the render in
\* which the call was made
apiSignsOut(f) == f.resp.status = 401 /\ f.token # NoToken

\* res.ok
Ok(f) == f.resp.status \in 200..299

\* the message of the Error api() throws
ErrorMessage(f) == IF f.resp.error # "" THEN f.resp.error ELSE "Request failed"

\* onSubmitLogin up to its await
SubmitLogin(values) ==
    /\ ~isAuthenticated(cToken)
    /\ ~cLoading
    /\ calls < MaxCalls
    /\ cError' = ""
    /\ cLoading' = TRUE
    /\ calls' = calls + 1
    /\ flights' = flights \cup {Flight(calls + 1, "login", cToken, values)}
    /\ UNCHANGED <<cToken, cMe, cUsers, localStorage, last>>
    /\ UNCHANGED <<users, nextId, now>>
    /\ UNCHANGED svars

\* handleLogout up to its await
ClickLogout ==
    /\ isAuthenticated(cToken)
    /\ calls < MaxCalls
    /\ cError' = ""
    /\ calls' = calls + 1
    /\ flights' = flights \cup {Flight(calls + 1, "logout", cToken, NoBody)}
    /\ UNCHANGED <<cToken, cMe, cUsers, cLoading, localStorage, last>>
    /\ UNCHANGED <<users, nextId, now>>
    /\ UNCHANGED svars

\* onSubmitUser, creating, up to its await
SubmitUser(values) ==
    /\ isAuthenticated(cToken)
    /\ ~cLoading
    /\ calls < MaxCalls
    /\ cError' = ""
    /\ cLoading' = TRUE
    /\ calls' = calls + 1
    /\ flights' = flights \cup {Flight(calls + 1, "submitUser", cToken, values)}
    /\ UNCHANGED <<cToken, cMe, cUsers, localStorage, last>>
    /\ UNCHANGED <<users, nextId, now>>
    /\ UNCHANGED svars

\* the server answers a fetch() call
Serve(f) ==
    /\ f \in flights
    /\ ~f.served
    /\ LET a == CASE f.fn = "login" -> PostLogin(users, now, f.body)
                  [] f.fn = "logout" -> LogoutRoute(users, f.token, now)
                  [] f.fn = "loadUsers" -> ListRoute(users, f.token, now)
                  [] f.fn = "submitUser" ->
                         CreateRoute(users, f.token, now, nextId, f.body)
       IN  /\ users' = a.users
           /\ nextId' = IF a.status = 201 THEN nextId + 1 ELSE nextId
           /\ flights' = (flights \ {f})
                            \cup {[f EXCEPT !.served = TRUE, !.resp = Response(a)]}
    /\ UNCHANGED <<cToken, cMe, cUsers, cLoading, cError, localStorage, calls, last>>
    /\ UNCHANGED now
    /\ UNCHANGED svars

\* the App state after api() has handled the answer of f: signed out on a
\* 401 to a call made with a token
AfterApi(f) ==
    [token |-> IF apiSignsOut(f) THEN NoToken ELSE cToken,
     me |-> IF apiSignsOut(f) THEN <<>> ELSE cMe,
     auth |-> IF apiSignsOut(f) THEN NoAuth ELSE localStorage]

\* the App state after the function awaiting f has run to its end
AfterAwait(f) ==
    LET s == AfterApi(f)
        base == [token |-> s.token, me |-> s.me, auth |-> s.auth,
                 users |-> cUsers, loading |-> cLoading, error |-> cError]
    IN  CASE f.fn = "login" ->
               IF Ok(f)
               THEN [base EXCEPT !.token = f.resp.token, !.me = f.resp.out,
                                 !.auth = Auth(f.resp.token, f.resp.out),
                                 !.loading = FALSE]
               ELSE [base EXCEPT !.loading = FALSE,
                                 !.error = IF f.resp.details # {} THEN cError
                                           ELSE ErrorMessage(f)]
          [] f.fn = "logout" ->
               [base EXCEPT !.token = NoToken, !.me = <<>>, !.users = <<>>,
                            !.auth = NoAuth,
                            !.error = IF Ok(f) THEN cError
                                      ELSE "Logout request failed"]
          [] f.fn = "loadUsers" ->
               IF Ok(f)
               THEN [base EXCEPT !.users = f.resp.out, !.loading = FALSE]
               ELSE [base EXCEPT !.error = ErrorMessage(f), !.loading = FALSE]
          [] f.fn = "submitUser" ->
               IF Ok(f)
               THEN [base EXCEPT !.users = f.resp.out \o cUsers,
                                 !.loading = FALSE]
               ELSE [base EXCEPT !.loading = FALSE,
                                 !.error = IF f.resp.status = 409
                                              \/ f.resp.details # {}
                                           THEN cError ELSE ErrorMessage(f)]

\* the answer of a fetch() call arrives: api() handles it, the awaiting
\* function runs to its end, and the effect on [isAuthenticated] runs
\* loadUsers when isAuthenticated has become true
Receive(f) ==
    /\ f \in flights
    /\ f.served
    /\ LET s == AfterAwait(f)
           load == ~isAuthenticated(cToken) /\ isAuthenticated(s.token)
       IN  /\ cToken' = s.token
           /\ cMe' = s.me
           /\ localStorage' = s.auth
           /\ cUsers' = s.users
           /\ cLoading' = (load \/ s.loading)
           /\ cError' = IF load THEN "" ELSE s.error
           /\ calls' = IF load THEN calls + 1 ELSE calls
           /\ flights' = (flights \ {f})
                 \cup (IF load
                       THEN {Flight(calls + 1, "loadUsers", s.token, NoBody)}
                       ELSE {})
    /\ last' = f
    /\ UNCHANGED <<users, nextId, now>>
    /\ UNCHANGED svars

ClientNext ==
    \/ \E values \in LoginValues : SubmitLogin(values)
    \/ ClickLogout
    \/ \E values \in UserValues : SubmitUser(values)
    \/ \E f \in flights : Serve(f)
    \/ \E f \in flights : Receive(f)
    \/ Tick

ClientSpec == Init /\ [][ClientNext]_vars

-----------------------------------------------------------------------------
(* Properties *)

ProtectedOps == {"logout", "list", "get", "create", "update", "remove"}

\* a request has just been answered
Answered == resp.status # 0

\* C1: in every reachable state no two stored user records have emails that
\* are equal under case-insensitive comparison.
C1_EmailsUnique ==
    Cardinality({toLowerCase(users[i].email) : i \in 1..Len(users)}) = Len(users)

\* a record was created and a second create, whose email differs from the
\* stored one in letter case only, has just been refused
C1_Witness ==
    /\ Len(users) = SeedCount + 2
    /\ req.op = "create"
    /\ resp.status = 409
    /\ req.body.email # users[Len(users)].email
    /\ toLowerCase(req.body.email) = toLowerCase(users[Len(users)].email)

\* the token is absent, malformed, signed with another key, or expired at t
BadToken(token, t) ==
    \/ token.kind = "none"
    \/ token.kind = "malformed"
    \/ token.key # JWT_SECRET
    \/ t >= token.exp * MsPerSecond

\* C2: every protected operation presented with no token, a malformed token,
\* a token not signed with the server's key or an expired token is answered
\* 401 with no record in the answer, whatever its id or body, and the store
\* is left unchanged.
C2_BadTokenRejected ==
    [][(resp'.status # 0 /\ req'.op \in ProtectedOps /\ BadToken(req'.token, now))
         => /\ resp'.status = 401
            /\ resp'.error \in {"Unauthorized", "Invalid or expired token"}
            /\ resp'.out = <<>>
            /\ users' = users
            /\ nextId' = nextId]_vars

\* a remove of an existing record presenting the expired token of a login
C2_Witness ==
    /\ req.op = "remove"
    /\ req.token = held
    /\ held.kind = "jwt"
    /\ now >= held.exp * MsPerSecond
    /\ FindById(users, req.id) # 0
    /\ resp.status = 401

\* C3: every request answered 400, 401, 404 or 409 leaves the whole user
\* store exactly as it was before the request.
C3_ErrorsLeaveStore ==
    [][resp'.status \in {400, 401, 404, 409}
         => users' = users /\ nextId' = nextId]_vars

\* an update carrying a valid name and a colliding email was answered 409
C3_Witness ==
    /\ req.op = "update"
    /\ resp.status = 409
    /\ req.body.has = {"name", "email"}
    /\ Len(trim(req.body.name)) >= 2

\* a protected request presenting the held token has just been answered
HeldTokenAnswered ==
    Answered /\ req.op \in ProtectedOps /\ req.token = held /\ held.kind = "jwt"

OneHourMs == 60 * 60 * 1000

\* C4 as stated: a token issued at time T (issuedAt) is accepted at every
\* time before T + 1h and rejected at every time after T + 1h.
C4_ExactlyOneHour ==
    HeldTokenAnswered =>
        /\ now < issuedAt + OneHourMs => resp.status # 401
        /\ now > issuedAt + OneHourMs => resp.status = 401

\* C4 amended: a token issued at time T expires one hour after T rounded down
\* to the whole second; it is accepted at every time before that instant (so
\* up to T + 1h - 1s) and rejected from that instant on (so from T + 1h), and
\* only a successful login answers with a token, which expires TokenTTL
\* seconds after the second it is issued in.
C4_ExpiresOnTheSecond ==
    /\ HeldTokenAnswered =>
          LET expiry == (issuedAt \div 1000) * 1000 + OneHourMs
          IN  /\ now < expiry => resp.status # 401
              /\ now >= expiry => resp.status = 401
              /\ now <= issuedAt + OneHourMs - 1000 => resp.status # 401
              /\ now >= issuedAt + OneHourMs => resp.status = 401
    /\ (Answered /\ resp.token # NoToken) =>
          /\ req.op = "login"
          /\ resp.status = 200
          /\ resp.token.exp * 1000 = (now \div 1000) * 1000 + OneHourMs

\* a protected request was accepted 59 minutes or more after the login that
\* issued its token
C4_Witness ==
    /\ HeldTokenAnswered
    /\ now >= issuedAt + 59 * 60 * 1000
    /\ resp.status # 401

\* C5: whether a protected request is accepted depends only on its token's
\* signature and expiry: it is answered 401 exactly when the token is absent,
\* malformed, signed with another key or expired; so the token of a
\* successful logout, and the token of a user no longer in the store, are
\* still accepted until they expire.
C5_StatelessVerification ==
    (Answered /\ req.op \in ProtectedOps) =>
        /\ resp.status = 401 <=> BadToken(req.token, now)
        /\ (loggedOut /\ req.token = held /\ now < held.exp * MsPerSecond)
              => resp.status # 401
        /\ (~BadToken(req.token, now) /\ FindById(users, req.token.userId) = 0)
              => resp.status # 401

\* after a logout with the held token and the removal of its user, a get
\* presenting that token passed requireAuth and was answered by the handler
C5_Witness ==
    /\ loggedOut
    /\ req.op = "get"
    /\ req.token = held
    /\ held.kind = "jwt"
    /\ FindById(users, held.userId) = 0
    /\ resp.status = 404

\* the stored record without its password, field by field
Stripped(u) ==
    [id |-> u.id, name |-> u.name, email |-> u.email, role |-> u.role,
     createdAt |-> u.createdAt]

\* C6: every user record in a response is a stored record (stored before or
\* after the request) with the password field removed; a successful login,
\* get, create, update or remove answers with one record, a list with one
\* per stored record.
C6_NoPasswordInResponses ==
    [][resp'.status # 0 =>
         /\ \A i \in 1..Len(resp'.out) :
               /\ "password" \notin DOMAIN resp'.out[i]
               /\ \E u \in Range(users) \cup Range(users') :
                     resp'.out[i] = Stripped(u)
         /\ resp'.status \in {200, 201} =>
               Len(resp'.out) = IF req'.op = "list" THEN Len(users)
                                ELSE IF req'.op = "logout" THEN 0 ELSE 1]_vars

\* a list answered with the seeded records and a created one
C6_Witness ==
    /\ req.op = "list"
    /\ resp.status = 200
    /\ Len(resp.out) = SeedCount + 2

\* C7 as stated: a valid create is answered 409 exactly when some stored
\* email equals the submitted email case-insensitively; a valid update that
\* supplies an email is answered 409 exactly when that email differs
\* case-insensitively from the record's own and equals another record's.
C7_ConflictOnSubmittedEmail ==
    [][/\ (req'.op = "create" /\ resp'.status \in {201, 409}) =>
            (resp'.status = 409 <=>
                \E i \in 1..Len(users) :
                    toLowerCase(users[i].email) = toLowerCase(req'.body.email))
       /\ (req'.op = "update" /\ resp'.status \in {200, 409}
             /\ "email" \in req'.body.has) =>
            LET i == FindById(users, req'.id)
                sent == toLowerCase(req'.body.email)
            IN  resp'.status = 409 <=>
                    /\ sent # toLowerCase(users[i].email)
                    /\ \E j \in 1..Len(users) :
                          j # i /\ toLowerCase(users[j].email) = sent]_vars

\* C7 amended: the same, the submitted email being compared after it is
\* trimmed of surrounding whitespace.
C7_ConflictOnTrimmedEmail ==
    [][/\ (req'.op = "create" /\ resp'.status \in {201, 409}) =>
            (resp'.status = 409 <=>
                \E i \in 1..Len(users) :
                    toLowerCase(users[i].email) = toLowerCase(trim(req'.body.email)))
       /\ (req'.op = "update" /\ resp'.status \in {200, 409}
             /\ "email" \in req'.body.has) =>
            LET i == FindById(users, req'.id)
                sent == toLowerCase(trim(req'.body.email))
            IN  resp'.status = 409 <=>
                    /\ sent # toLowerCase(users[i].email)
                    /\ \E j \in 1..Len(users) :
                          j # i /\ toLowerCase(users[j].email) = sent]_vars

\* an update of a record to its own email in another letter case succeeded
C7_Witness ==
    /\ req.op = "update"
    /\ resp.status = 200
    /\ req.body.has = {"email"}
    /\ LET i == FindById(users, req.id)
       IN  /\ req.body.email # users[i].email
           /\ toLowerCase(req.body.email) = toLowerCase(users[i].email)

\* the body satisfies the rules of create: a name of two characters or more
\* once trimmed, an email address once trimmed, a role of the enum or none,
\* a password of six characters or more
ValidCreate(body) ==
    /\ {"name", "email", "password"} \subseteq body.has
    /\ Len(trim(body.name)) >= 2
    /\ IsEmail(trim(body.email))
    /\ "role" \in body.has => body.role \in allowedRoles
    /\ Len(body.password) >= 6

\* what C8 says of a create, normalize being the normalization of the email
CreateEffect(normalize(_)) ==
    /\ (req'.op = "create" /\ ValidCreate(req'.body)
          /\ ~BadToken(req'.token, now)
          /\ \A i \in 1..Len(users) :
                toLowerCase(users[i].email) # toLowerCase(trim(req'.body.email)))
         => resp'.status = 201
    /\ (req'.op = "create" /\ resp'.status = 201) =>
          LET new == users'[Len(users')]
              got == GetRoute(users', req'.token, now', resp'.out[1].id)
          IN  /\ users' = Append(users, new)
              /\ \A i \in 1..Len(users) : users[i].id # new.id
              /\ new.role = IF "role" \in req'.body.has THEN req'.body.role
                            ELSE "user"
              /\ new.email = toLowerCase(new.email)
              /\ got.status = 200
              /\ got.out = <<Stripped(new)>>
              /\ got.out[1].email = normalize(req'.body.email)

\* C8 as stated: a valid, non-conflicting create adds exactly one record with
\* a fresh id, the role defaulted to user and the email in lower case; a get
\* on the returned id returns it, its email the submitted email in lower case.
C8_CreateStoresLowerCase == [][CreateEffect(toLowerCase)]_vars

LowerTrimmed(s) == toLowerCase(trim(s))

\* C8 amended: the same, the email of the record being the submitted email
\* trimmed of surrounding whitespace and in lower case.
C8_CreateStoresTrimmedLowerCase == [][CreateEffect(LowerTrimmed)]_vars

\* a create without a role was answered 201 and stored with the role user
C8_Witness ==
    /\ req.op = "create"
    /\ resp.status = 201
    /\ "role" \notin req.body.has
    /\ users[Len(users)].role = "user"
    /\ users[Len(users)].id = resp.out[1].id

\* C9: a successful update changes, of the record with that id, at most the
\* supplied fields among name, email, role and password; its id, its
\* createdAt, the fields not supplied and the other records stay; an update
\* with no fields on an existing id is answered 200 and changes nothing.
C9_PartialUpdate ==
    [][/\ (req'.op = "update" /\ resp'.status = 200) =>
            LET i == FindById(users, req'.id)
            IN  /\ i # 0
                /\ Len(users') = Len(users)
                /\ \A j \in 1..Len(users) : j # i => users'[j] = users[j]
                /\ users'[i].id = users[i].id
                /\ users'[i].createdAt = users[i].createdAt
                /\ "name" \notin req'.body.has => users'[i].name = users[i].name
                /\ "email" \notin req'.body.has => users'[i].email = users[i].email
                /\ "role" \notin req'.body.has => users'[i].role = users[i].role
                /\ "password" \notin req'.body.has =>
                      users'[i].password = users[i].password
       /\ (req'.op = "update" /\ req'.body.has = {}
             /\ ~BadToken(req'.token, now) /\ FindById(users, req'.id) # 0) =>
            resp'.status = 200 /\ users' = users]_vars

\* an update supplying role and password (and an id) changed the role of the
\* record named in the path and was answered 200
C9_Witness ==
    /\ req.op = "update"
    /\ resp.status = 200
    /\ req.body.has = {"id", "role", "password"}
    /\ LET i == FindById(users, req.id)
       IN  users[i].role = req.body.role /\ users[i].password = req.body.password

EmptyPassword == Body({"password"}, <<>>, <<>>, "", "")

\* C10: an update of an existing id with {password: ""} leaves the stored
\* password as it was, and a login with the record's email and that password
\* succeeds afterwards.
C10_EmptyPasswordKeepsPassword ==
    [][(req'.op = "update" /\ req'.body = EmptyPassword
          /\ FindById(users, req'.id) # 0) =>
         LET i == FindById(users, req'.id)
         IN  /\ FindById(users', req'.id) = i
             /\ users'[i].password = users[i].password
             /\ PostLogin(users', now',
                          Body({"email", "password"}, <<>>, users[i].email, "",
                               users[i].password)).status = 200]_vars

\* an authenticated update of an existing id with {password: ""} was answered
C10_Witness ==
    /\ req.op = "update"
    /\ req.body = EmptyPassword
    /\ FindById(users, req.id) # 0
    /\ ~BadToken(req.token, now)
    /\ resp.status = 400
    /\ resp.details = {"password"}

\* the name, role and password fields present in the body as empty strings
EmptyFields(body) ==
    {k \in body.has \cap {"name", "role", "password"} :
        \/ k = "name" /\ body.name = <<>>
        \/ k = "role" /\ body.role = ""
        \/ k = "password" /\ body.password = ""}

\* the body with the fields of `keys` left out
Without(body, keys) == [body EXCEPT !.has = @ \ keys]

Removed == {id \in 1..nextId - 1 : FindById(users, id) = 0}

\* C12: a successful remove takes exactly the record with that id out of the
\* store, leaves the others as they were and answers with that record
\* sanitized; an id once out of the store stays out, and every get, update
\* or remove on it is answered 404.
C12_RemoveThenNotFound ==
    [][/\ (req'.op = "remove" /\ resp'.status = 200) =>
            LET i == FindById(users, req'.id)
            IN  /\ i # 0
                /\ users' = SubSeq(users, 1, i - 1) \o SubSeq(users, i + 1, Len(users))
                /\ \A j \in 1..Len(users') : users'[j].id # req'.id
                /\ resp'.out = <<Stripped(users[i])>>
       /\ Removed \subseteq Removed'
       /\ (resp'.status # 0 /\ req'.op \in {"get", "update", "remove"}
             /\ req'.id \in Removed /\ ~BadToken(req'.token, now)) =>
            resp'.status = 404 /\ users' = users]_vars

\* a get on the id of a removed record was answered 404
C12_Witness ==
    /\ req.op = "get"
    /\ req.id \in Removed
    /\ ~BadToken(req.token, now)
    /\ resp.status = 404

\* the names of the seeded users, most recently created first
SeedNamesNewestFirst ==
    [k \in 1..SeedCount |-> UserName(SeedCount + 1 - k)]
    \o <<<<"D","e","m","o"," ","A","d","m","i","n">>>>

\* C13: a list answers with every stored record exactly once, sanitized, in
\* non-increasing createdAt order, and leaves the store as it was; on the
\* seeded store the order is User 7 down to User 1, then Demo Admin, and a
\* record created after the start comes before every seeded record (first,
\* when it is the only one).
C13_ListNewestFirst ==
    [][(req'.op = "list" /\ resp'.status = 200) =>
         LET out == resp'.out
         IN  /\ users' = users
             /\ Len(out) = Len(users)
             /\ \A i \in 1..Len(users) :
                   Cardinality({k \in 1..Len(out) : out[k] = Stripped(users[i])}) = 1
             /\ \A k \in 1..Len(out) - 1 : out[k].createdAt >= out[k+1].createdAt
             /\ users = SeedUsers(StartTime) =>
                   {k \in 1..Len(out) : out[k].name # SeedNamesNewestFirst[k]} = {}
             /\ \A k, m \in 1..Len(out) :
                   (out[k].id > SeedCount + 1 /\ out[m].id <= SeedCount + 1) => k < m
             /\ Cardinality({k \in 1..Len(out) : out[k].id > SeedCount + 1}) = 1
                   => out[1].id > SeedCount + 1]_vars

\* a list of the seeded records and a created one, the created one first
C13_Witness ==
    /\ req.op = "list"
    /\ resp.status = 200
    /\ Len(resp.out) = SeedCount + 2
    /\ resp.out[1].id = SeedCount + 2
    /\ resp.out[2].name = UserName(SeedCount)

\* C14: a login whose body passes validation is answered 200 exactly when
\* some stored record has the email case-insensitively and the password
\* exactly, and 401 otherwise; the token carries that record's id, the answer
\* that record sanitized, and no login changes the store.
C14_LoginChecksCurrentStore ==
    [][req'.op = "login" =>
         LET body == req'.body
             match == {i \in 1..Len(users) :
                         /\ toLowerCase(users[i].email) = toLowerCase(body.email)
                         /\ users[i].password = body.password}
         IN  /\ users' = users
             /\ ({"email", "password"} \subseteq body.has /\ IsEmail(body.email)
                   /\ Len(body.password) >= 1) =>
                  /\ resp'.status = IF match # {} THEN 200 ELSE 401
                  /\ resp'.status = 401 => resp'.error = "Invalid email or password"
             /\ resp'.status = 200 =>
                  /\ match # {}
                  /\ \E i \in match :
                        /\ resp'.token.userId = users[i].id
                        /\ resp'.token.key = JWT_SECRET
                        /\ resp'.out = <<Stripped(users[i])>>]_vars

\* after an update of the password, a login with the new password succeeded
C14_Witness ==
    /\ req.op = "login"
    /\ resp.status = 200
    /\ req.body.password = "newpass1"
    /\ resp.token.userId = 1

\* C15: when the answer 401 to a call made with a token is handled, the
\* token is cleared from the App state and the 'auth' item is removed from
\* localStorage, so the login form is shown; a 401 to a login made with no
\* token leaves the token and the item as they were.
C15_UnauthorizedSignsOut ==
    [][(last' # last /\ last'.resp.status = 401) =>
         /\ last'.token # NoToken =>
              /\ cToken' = NoToken
              /\ cMe' = <<>>
              /\ localStorage' = NoAuth
              /\ ~isAuthenticated(cToken')
         /\ (last'.token = NoToken /\ last'.fn = "login") =>
              /\ cToken' = cToken
              /\ localStorage' = localStorage]_vars

\* the list was asked for with a token since expired; the answer 401 cleared
\* the token that was held and removed the item
C15_Witness ==
    /\ last.fn = "loadUsers"
    /\ last.token # NoToken
    /\ last.resp.status = 401
    /\ last.resp.error = "Invalid or expired token"
    /\ cToken = NoToken
    /\ localStorage = NoAuth

\* a 401 to a call made with another token than the one now held leaves the
\* token held and the 'auth' item as they are
C16_Late401KeepsSession ==
    [][(last' # last /\ last'.resp.status = 401 /\ last'.token # NoToken
          /\ isAuthenticated(cToken) /\ last'.token # cToken) =>
         cToken' = cToken /\ localStorage' = localStorage]_vars

\* an answer to loadUsers handled while no token is held leaves the users
\* list as it is
C16_LateListKeepsUsers ==
    [][(last' # last /\ last'.fn = "loadUsers" /\ ~isAuthenticated(cToken)) =>
         cUsers' = cUsers]_vars

\* C16: the answer to a call made under an earlier session does not disturb
\* a later one: a 401 to a call made with the old token clears neither the
\* newer token nor the 'auth' item, and a late answer to loadUsers does not
\* fill the users list while no token is held.
C16_EarlierSessionLeavesLater ==
    [][(last' # last) =>
         /\ (last'.resp.status = 401 /\ last'.token # NoToken
               /\ isAuthenticated(cToken) /\ last'.token # cToken) =>
              cToken' = cToken /\ localStorage' = localStorage
         /\ (last'.fn = "loadUsers" /\ ~isAuthenticated(cToken)) =>
              cUsers' = cUsers]_vars

====
